---- MODULE Spec2Model ----
(***************************************************************************)
(* Model of the Human Resource Machine virtual machine (src/src/machine.rs) *)
(* The machine is a record of the fields of `struct Machine`; `step` and   *)
(* `run` are translated arm by arm from the source.                        *)
(***************************************************************************)
EXTENDS Integers, Sequences, FiniteSets, TLC

\* ------------------------------------------------------------------------
\* Bounds of the model
\* ------------------------------------------------------------------------
\* longest Program drawn in Init
MaxProgLen == 3
\* longest caller-supplied input drawn in Init
MaxInput == 2

\* ------------------------------------------------------------------------
\* Tiles and NumberValue (machine.rs 76-129)
\* ------------------------------------------------------------------------
\* Tile::Number(NumberValue(v))
Number(v) == [kind |-> "Number", v |-> v]
\* Tile::Letter(c), c the char's code point
Letter(c) == [kind |-> "Letter", v |-> c]

\* Result<T, StepError>
Ok(v) == [err |-> "None", v |-> v]
Err(e) == [err |-> e, v |-> 0]

\* `x as i16` on an integer: keep the low 16 bits, two's complement
as_i16(x) == LET w == x % 65536 IN IF w >= 32768 THEN w - 65536 ELSE w

\* `x as u8`: keep the low 8 bits
as_u8(x) == x % 256

\* NumberValue::clamp
clamp(v) ==
    IF v > 999 THEN Err("Overflow")
    ELSE IF v < -999 THEN Err("Underflow")
    ELSE Ok(v)

\* NumberValue::from_char
from_char(c) == clamp(as_i16(c))

\* NumberValue::add, the sum computed in i16
add(a, b) == clamp(as_i16(a + b))

\* NumberValue::sub taking self from other
sub_reversed(a, b) == clamp(as_i16(b - a))

\* NumberValue::sub, the difference computed in i16
sub(a, b) == clamp(as_i16(a - b))

\* NumberValue::is_zero
is_zero(v) == v = 0

\* NumberValue::is_negative
is_negative(v) == v < 0

\* NumberValue::increment
increment(v) == clamp(as_i16(v + 1))

\* NumberValue::decrement
decrement(v) == clamp(as_i16(v - 1))

\* NumberValue::into_u8
into_u8(v) == as_u8(v)

\* Option<Tile>
None == <<>>
Some(t) == <<t>>

\* ------------------------------------------------------------------------
\* Register operands and Instructions (parser.rs 56-59, machine.rs 8-22)
\* ------------------------------------------------------------------------
Direct(n) == [ind |-> FALSE, n |-> n]
Indirect(n) == [ind |-> TRUE, n |-> n]
NoReg == Direct(0)

Inbox == [op |-> "Inbox", r |-> NoReg, i |-> 0]
Outbox == [op |-> "Outbox", r |-> NoReg, i |-> 0]
CopyFrom(r) == [op |-> "CopyFrom", r |-> r, i |-> 0]
CopyTo(r) == [op |-> "CopyTo", r |-> r, i |-> 0]
BumpUp(r) == [op |-> "BumpUp", r |-> r, i |-> 0]
BumpDown(r) == [op |-> "BumpDown", r |-> r, i |-> 0]
Add(r) == [op |-> "Add", r |-> r, i |-> 0]
Sub(r) == [op |-> "Sub", r |-> r, i |-> 0]
Jump(i) == [op |-> "Jump", r |-> NoReg, i |-> i]
JumpIfZero(i) == [op |-> "JumpIfZero", r |-> NoReg, i |-> i]
JumpIfNegative(i) == [op |-> "JumpIfNegative", r |-> NoReg, i |-> i]
NoOp == [op |-> "NoOp", r |-> NoReg, i |-> 0]

\* the instructions that take a register operand
RegisterOps == {"CopyFrom", "CopyTo", "BumpUp", "BumpDown", "Add", "Sub"}
\* the jumping instructions
JumpOps == {"Jump", "JumpIfZero", "JumpIfNegative"}

\* ------------------------------------------------------------------------
\* Machine (machine.rs 158-331)
\* ------------------------------------------------------------------------
\* Vec::reverse
Reverse(s) == [k \in 1..Len(s) |-> s[Len(s) + 1 - k]]

\* BTreeMap::insert
Insert(map, k, v) == [x \in DOMAIN map \cup {k} |-> IF x = k THEN v ELSE map[x]]

\* new keeping the input as supplied, so that pop takes the last tile first
new_no_reverse(program, input, registers) ==
    [program |-> program,
     input |-> input,
     output |-> <<>>,
     pc |-> 0,
     accumulator |-> None,
     registers |-> registers]

\* Machine::new
new(program, input, registers) ==
    [program |-> program,
     input |-> Reverse(input),
     output |-> <<>>,
     pc |-> 0,
     accumulator |-> None,
     registers |-> registers]

\* deref_target taking zero for negative
deref_target_zero_negative(m, r) ==
    IF ~r.ind THEN Ok(r.n)
    ELSE IF r.n \notin DOMAIN m.registers THEN Err("IndirectThroughNil")
    ELSE LET t == m.registers[r.n] IN
         IF t.kind = "Number" /\ t.v <= 0 THEN Err("IndirectThroughNegative")
         ELSE IF t.kind = "Number" THEN Ok(into_u8(t.v))
         ELSE Err("IndirectThroughLetter")

\* Machine::deref_target
deref_target(m, r) ==
    IF ~r.ind THEN Ok(r.n)
    ELSE IF r.n \notin DOMAIN m.registers THEN Err("IndirectThroughNil")
    ELSE LET t == m.registers[r.n] IN
         IF t.kind = "Number" /\ is_negative(t.v) THEN Err("IndirectThroughNegative")
         ELSE IF t.kind = "Number" THEN Ok(into_u8(t.v))
         ELSE Err("IndirectThroughLetter")

\* an arm of step's match that returns early with `ret`
Return(ret, m) == [ret |-> ret, m |-> m]
\* an arm of step's match that falls through to `self.pc += 1`
Fall(m) == [ret |-> "Fall", m |-> m]

\* step_Inbox taking the tile at the front of the reversed vector
step_Inbox_takes_front(m) ==
    IF Len(m.input) > 0
    THEN Fall([m EXCEPT !.accumulator = Some(m.input[1]),
                        !.input = SubSeq(m.input, 2, Len(m.input))])
    ELSE Return("EndOfProgram", m)

\* step_Inbox counting an empty input as an instruction that was executed
step_Inbox_falls(m) ==
    IF Len(m.input) > 0
    THEN Fall([m EXCEPT !.accumulator = Some(m.input[Len(m.input)]),
                        !.input = SubSeq(m.input, 1, Len(m.input) - 1)])
    ELSE Fall(m)

\* step, arm Inbox
step_Inbox(m) ==
    IF Len(m.input) > 0
    THEN Fall([m EXCEPT !.accumulator = Some(m.input[Len(m.input)]),
                        !.input = SubSeq(m.input, 1, Len(m.input) - 1)])
    ELSE Return("EndOfProgram", m)

\* step_Outbox replacing the output by the tile
step_Outbox_overwrites(m) ==
    IF m.accumulator # None
    THEN Fall([m EXCEPT !.output = <<m.accumulator[1]>>])
    ELSE Return("OutputNil", m)

\* step_Outbox putting the tile at the front of the output
step_Outbox_prepends(m) ==
    IF m.accumulator # None
    THEN Fall([m EXCEPT !.output = <<m.accumulator[1]>> \o m.output])
    ELSE Return("OutputNil", m)

\* step_Outbox emptying the accumulator after the push
step_Outbox_empties_hand(m) ==
    IF m.accumulator # None
    THEN Fall([m EXCEPT !.output = Append(m.output, m.accumulator[1]),
                        !.accumulator = None])
    ELSE Return("OutputNil", m)

\* step, arm Outbox
step_Outbox(m) ==
    IF m.accumulator # None
    THEN Fall([m EXCEPT !.output = Append(m.output, m.accumulator[1])])
    ELSE Return("OutputNil", m)

\* step_CopyFrom taking a register that holds Number(0) for an empty one
step_CopyFrom_zero_is_nil(m, reg) ==
    LET r == deref_target(m, reg) IN
    IF r.err # "None" THEN Return(r.err, m)
    ELSE IF r.v \notin DOMAIN m.registers \/ m.registers[r.v] = Number(0)
    THEN Return("CopyFromNil", m)
    ELSE Fall([m EXCEPT !.accumulator = Some(m.registers[r.v])])

\* step, arm CopyFrom
step_CopyFrom(m, reg) ==
    LET r == deref_target(m, reg) IN
    IF r.err # "None" THEN Return(r.err, m)
    ELSE IF r.v \notin DOMAIN m.registers THEN Return("CopyFromNil", m)
    ELSE Fall([m EXCEPT !.accumulator = Some(m.registers[r.v])])

\* step_CopyTo moving the tile: the accumulator is empty afterwards
step_CopyTo_moves(m, reg) ==
    IF m.accumulator # None
    THEN LET r == deref_target(m, reg) IN
         IF r.err # "None" THEN Return(r.err, m)
         ELSE Fall([m EXCEPT !.registers = Insert(m.registers, r.v, m.accumulator[1]),
                             !.accumulator = None])
    ELSE Return("CopyToNil", m)

\* step, arm CopyTo
step_CopyTo(m, reg) ==
    IF m.accumulator # None
    THEN LET r == deref_target(m, reg) IN
         IF r.err # "None" THEN Return(r.err, m)
         ELSE Fall([m EXCEPT !.registers = Insert(m.registers, r.v, m.accumulator[1])])
    ELSE Return("CopyToNil", m)

\* step_Bump leaving the accumulator as it was
step_Bump_keeps_accumulator(m, reg, up) ==
    LET r == deref_target(m, reg) IN
    IF r.err # "None" THEN Return(r.err, m)
    ELSE IF r.v \notin DOMAIN m.registers THEN Return("BumpNil", m)
    ELSE LET t == m.registers[r.v] IN
         IF t.kind = "Number"
         THEN LET v == IF up THEN increment(t.v) ELSE decrement(t.v) IN
              IF v.err # "None" THEN Return(v.err, m)
              ELSE Fall([m EXCEPT !.registers = Insert(m.registers, r.v, Number(v.v))])
         ELSE Return("BumpLetter", m)

\* step_Bump writing the register before the clamp's result is looked at
step_Bump_early_write(m, reg, up) ==
    LET r == deref_target(m, reg) IN
    IF r.err # "None" THEN Return(r.err, m)
    ELSE IF r.v \notin DOMAIN m.registers THEN Return("BumpNil", m)
    ELSE LET t == m.registers[r.v] IN
         IF t.kind = "Number"
         THEN LET n == IF up THEN t.v + 1 ELSE t.v - 1
                  v == clamp(n)
                  w == [m EXCEPT !.registers = Insert(m.registers, r.v, Number(n))] IN
              IF v.err # "None" THEN Return(v.err, w)
              ELSE Fall([w EXCEPT !.accumulator = Some(Number(v.v))])
         ELSE Return("BumpLetter", m)

\* step, arms BumpUp (up) and BumpDown (~up), which differ in increment / decrement only
step_Bump(m, reg, up) ==
    LET r == deref_target(m, reg) IN
    IF r.err # "None" THEN Return(r.err, m)
    ELSE IF r.v \notin DOMAIN m.registers THEN Return("BumpNil", m)
    ELSE LET t == m.registers[r.v] IN
         IF t.kind = "Number"
         THEN LET v == IF up THEN increment(t.v) ELSE decrement(t.v) IN
              IF v.err # "None" THEN Return(v.err, m)
              ELSE Fall([m EXCEPT !.registers = Insert(m.registers, r.v, Number(v.v)),
                                  !.accumulator = Some(Number(v.v))])
         ELSE Return("BumpLetter", m)

\* step_Add looking at the register before the accumulator
step_Add_register_first(m, reg) ==
    LET r == deref_target(m, reg) IN
    IF r.err # "None" THEN Return(r.err, m)
    ELSE IF r.v \notin DOMAIN m.registers THEN Return("AddWithNil", m)
    ELSE IF m.accumulator = None THEN Return("AddToNil", m)
    ELSE LET a == m.accumulator[1]
             t == m.registers[r.v] IN
         IF a.kind = "Number" /\ t.kind = "Number"
         THEN LET v == add(a.v, t.v) IN
              IF v.err # "None" THEN Return(v.err, m)
              ELSE Fall([m EXCEPT !.accumulator = Some(Number(v.v))])
         ELSE Return("AddWithLetter", m)

\* step_Add storing the sum in the register as well
step_Add_writes_register(m, reg) ==
    LET r == deref_target(m, reg) IN
    IF r.err # "None" THEN Return(r.err, m)
    ELSE IF m.accumulator = None THEN Return("AddToNil", m)
    ELSE IF r.v \notin DOMAIN m.registers THEN Return("AddWithNil", m)
    ELSE LET a == m.accumulator[1]
             t == m.registers[r.v] IN
         IF a.kind = "Number" /\ t.kind = "Number"
         THEN LET v == add(a.v, t.v) IN
              IF v.err # "None" THEN Return(v.err, m)
              ELSE Fall([m EXCEPT !.accumulator = Some(Number(v.v)),
                                  !.registers = Insert(m.registers, r.v, Number(v.v))])
         ELSE Return("AddWithLetter", m)

\* step, arm Add
step_Add(m, reg) ==
    LET r == deref_target(m, reg) IN
    IF r.err # "None" THEN Return(r.err, m)
    ELSE IF m.accumulator = None THEN Return("AddToNil", m)
    ELSE IF r.v \notin DOMAIN m.registers THEN Return("AddWithNil", m)
    ELSE LET a == m.accumulator[1]
             t == m.registers[r.v] IN
         IF a.kind = "Number" /\ t.kind = "Number"
         THEN LET v == add(a.v, t.v) IN
              IF v.err # "None" THEN Return(v.err, m)
              ELSE Fall([m EXCEPT !.accumulator = Some(Number(v.v))])
         ELSE Return("AddWithLetter", m)

\* step, arm Sub
step_Sub(m, reg) ==
    LET r == deref_target(m, reg) IN
    IF r.err # "None" THEN Return(r.err, m)
    ELSE IF m.accumulator = None THEN Return("SubFromNil", m)
    ELSE IF r.v \notin DOMAIN m.registers THEN Return("SubWithNil", m)
    ELSE LET a == m.accumulator[1]
             t == m.registers[r.v] IN
         IF a.kind = "Number" /\ t.kind = "Number"
         THEN LET v == sub(a.v, t.v) IN
              IF v.err # "None" THEN Return(v.err, m)
              ELSE Fall([m EXCEPT !.accumulator = Some(Number(v.v))])
         ELSE IF a.kind = "Letter" /\ t.kind = "Letter"
         THEN LET ca == from_char(a.v) IN
              IF ca.err # "None" THEN Return(ca.err, m)
              ELSE LET cv == from_char(t.v) IN
                   IF cv.err # "None" THEN Return(cv.err, m)
                   ELSE LET v == sub(ca.v, cv.v) IN
                        IF v.err # "None" THEN Return(v.err, m)
                        ELSE Fall([m EXCEPT !.accumulator = Some(Number(v.v))])
         ELSE Return("SubCrossTypes", m)

\* step_Jump going on to the next instruction instead of its target
step_Jump_ignored(m, i) == Fall(m)

\* step, arm Jump
step_Jump(m, i) == Return("Ok", [m EXCEPT !.pc = i])

\* step, arm JumpIfZero
step_JumpIfZero(m, i) ==
    IF m.accumulator = None THEN Return("JumpZeroNil", m)
    ELSE LET t == m.accumulator[1] IN
         IF t.kind = "Number" /\ is_zero(t.v)
         THEN Return("Ok", [m EXCEPT !.pc = i])
         ELSE Fall(m)

\* step_JumpIfNegative jumping on zero as well
step_JumpIfNegative_or_zero(m, i) ==
    IF m.accumulator = None THEN Return("JumpNegativeNil", m)
    ELSE LET t == m.accumulator[1] IN
         IF t.kind = "Number" /\ (is_negative(t.v) \/ is_zero(t.v))
         THEN Return("Ok", [m EXCEPT !.pc = i])
         ELSE Fall(m)

\* step, arm JumpIfNegative
step_JumpIfNegative(m, i) ==
    IF m.accumulator = None THEN Return("JumpNegativeNil", m)
    ELSE LET t == m.accumulator[1] IN
         IF t.kind = "Number" /\ is_negative(t.v)
         THEN Return("Ok", [m EXCEPT !.pc = i])
         ELSE Fall(m)

\* step, arm NoOp
step_NoOp(m) == Fall(m)

\* step, the match on self.program.0[self.pc]
step_match(m) ==
    LET instr == m.program[m.pc + 1] IN
    CASE instr.op = "Inbox" -> step_Inbox(m)
      [] instr.op = "Outbox" -> step_Outbox(m)
      [] instr.op = "CopyFrom" -> step_CopyFrom(m, instr.r)
      [] instr.op = "CopyTo" -> step_CopyTo(m, instr.r)
      [] instr.op = "BumpUp" -> step_Bump(m, instr.r, TRUE)
      [] instr.op = "BumpDown" -> step_Bump(m, instr.r, FALSE)
      [] instr.op = "Add" -> step_Add(m, instr.r)
      [] instr.op = "Sub" -> step_Sub(m, instr.r)
      [] instr.op = "Jump" -> step_Jump(m, instr.i)
      [] instr.op = "JumpIfZero" -> step_JumpIfZero(m, instr.i)
      [] instr.op = "JumpIfNegative" -> step_JumpIfNegative(m, instr.i)
      [] instr.op = "NoOp" -> step_NoOp(m)

\* step_tail leaving pc where it was
step_tail_stays(m) ==
    [res |-> IF m.pc >= Len(m.program) THEN "EndOfProgram" ELSE "Ok", m |-> m]

\* step_tail with the end test off by one
step_tail_gt(m) ==
    LET m2 == [m EXCEPT !.pc = m.pc + 1] IN
    [res |-> IF m2.pc > Len(m2.program) THEN "EndOfProgram" ELSE "Ok", m |-> m2]

\* step, the tail after the match: self.pc += 1 and the end test
step_tail(m) ==
    LET m2 == [m EXCEPT !.pc = m.pc + 1] IN
    [res |-> IF m2.pc >= Len(m2.program) THEN "EndOfProgram" ELSE "Ok", m |-> m2]

\* Machine::step; indexing the Program outside its length panics
step(m) ==
    IF m.pc >= Len(m.program) THEN [res |-> "Panic", m |-> m]
    ELSE LET e == step_match(m) IN
         IF e.ret = "Fall" THEN step_tail(e.m)
         ELSE [res |-> e.ret, m |-> e.m]

\* run_match going on after a failed step
run_match_continues(res) ==
    IF res = "Ok" \/ res \in {"OutputNil", "CopyToNil"} THEN [continue |-> TRUE, ret |-> "None"]
    ELSE IF res = "EndOfProgram" THEN [continue |-> FALSE, ret |-> "Ok"]
    ELSE [continue |-> FALSE, ret |-> res]

\* Machine::run, the match on one step's result: what run does next
run_match(res) ==
    IF res = "Ok" THEN [continue |-> TRUE, ret |-> "None"]
    ELSE IF res = "EndOfProgram" THEN [continue |-> FALSE, ret |-> "Ok"]
    ELSE [continue |-> FALSE, ret |-> res]

\* ------------------------------------------------------------------------
\* Tokens (parser.rs 65-83) and the compiler (compiler.rs, machine.rs 27-74)
\* ------------------------------------------------------------------------
\* a Token: its variant, its Register (NoReg when it has none), its label or
\* comment id and its comment data (empty when it has none)
Token(tok, r, id, data) == [tok |-> tok, r |-> r, id |-> id, data |-> data]
NoToken == Token("None", NoReg, <<>>, <<>>)

\* an item of the iterator compile consumes: Result<Token, E>
OkToken(t) == [err |-> "None", v |-> t]
LexErr(e) == [err |-> e, v |-> NoToken]

\* the Token variants the compilers filter out
JunkTokens == {"Header", "Comment", "CommentDefinition", "Whitespace"}
\* the Token variants that name a label to jump to
JumpTokens == {"Jump", "JumpIfZero", "JumpIfNegative"}

\* Iterator::filter: the tokens of s whose variant is not in junk, in order
RECURSIVE Filter(_, _)
Filter(s, junk) ==
    IF s = <<>> THEN <<>>
    ELSE IF Head(s).tok \in junk THEN Filter(Tail(s), junk)
    ELSE <<Head(s)>> \o Filter(Tail(s), junk)

\* collect() into Result<Vec<_>, E> keeping the last Err it meets
collect_last_error(iterator) ==
    LET bad == {k \in 1..Len(iterator) : iterator[k].err # "None"} IN
    IF bad = {} THEN [err |-> "None", v |-> [k \in 1..Len(iterator) |-> iterator[k].v]]
    ELSE [err |-> iterator[CHOOSE k \in bad : \A j \in bad : j <= k].err, v |-> <<>>]

\* compile: `try!(iterator.into_iter().collect())`, the tokens or the first Err
collect(iterator) ==
    LET bad == {k \in 1..Len(iterator) : iterator[k].err # "None"} IN
    IF bad = {} THEN [err |-> "None", v |-> [k \in 1..Len(iterator) |-> iterator[k].v]]
    ELSE [err |-> iterator[CHOOSE k \in bad : \A j \in bad : k <= j].err, v |-> <<>>]

\* without_junk dropping the label definitions with the junk
without_junk_drops_labels(tokens) == Filter(tokens, JunkTokens \cup {"LabelDefinition"})

\* compile: "Remove values that don't change the behavior"
without_junk(tokens) == Filter(tokens, JunkTokens)

\* the loop of label_mapping from position k (1-based) on, map built so far
RECURSIVE label_mapping_from(_, _, _)
label_mapping_from(wj, k, map) ==
    IF k > Len(wj) THEN map
    ELSE IF wj[k].tok = "LabelDefinition"
    THEN label_mapping_from(wj, k + 1, Insert(map, wj[k].id, k - 1))
    ELSE label_mapping_from(wj, k + 1, map)

\* the loop keeping the first index of a label that is defined again
RECURSIVE label_mapping_first_from(_, _, _)
label_mapping_first_from(wj, k, map) ==
    IF k > Len(wj) THEN map
    ELSE IF wj[k].tok = "LabelDefinition" /\ wj[k].id \notin DOMAIN map
    THEN label_mapping_first_from(wj, k + 1, Insert(map, wj[k].id, k - 1))
    ELSE label_mapping_first_from(wj, k + 1, map)

\* label_mapping keeping the first definition of a label
label_mapping_first_wins(wj) == label_mapping_first_from(wj, 1, <<>>)

\* the loop recording the index after the LabelDefinition
RECURSIVE label_mapping_next_from(_, _, _)
label_mapping_next_from(wj, k, map) ==
    IF k > Len(wj) THEN map
    ELSE IF wj[k].tok = "LabelDefinition"
    THEN label_mapping_next_from(wj, k + 1, Insert(map, wj[k].id, k))
    ELSE label_mapping_next_from(wj, k + 1, map)

\* label_mapping recording the index of the instruction after the label
label_mapping_next(wj) == label_mapping_next_from(wj, 1, <<>>)

\* compile: "Find all the indexes of the labels"
label_mapping(wj) == label_mapping_from(wj, 1, <<>>)

\* unmap giving index 0 for a label that is not in the map
unmap_or_zero(map, id) ==
    IF id \in DOMAIN map THEN Ok(map[id]) ELSE Ok(0)

\* compile: the closure unmap
unmap(map, id) ==
    IF id \in DOMAIN map THEN Ok(map[id]) ELSE Err("UndefinedLabel")

\* compile: the match that makes an instruction of a token; jumps take the
\* resolved index i
instruction(t, i) ==
    CASE t.tok = "Inbox" -> Inbox
      [] t.tok = "Outbox" -> Outbox
      [] t.tok = "CopyFrom" -> CopyFrom(t.r)
      [] t.tok = "CopyTo" -> CopyTo(t.r)
      [] t.tok = "BumpUp" -> BumpUp(t.r)
      [] t.tok = "BumpDown" -> BumpDown(t.r)
      [] t.tok = "Add" -> Add(t.r)
      [] t.tok = "Sub" -> Sub(t.r)
      [] t.tok = "LabelDefinition" -> NoOp
      [] t.tok = "Jump" -> Jump(i)
      [] t.tok = "JumpIfZero" -> JumpIfZero(i)
      [] t.tok = "JumpIfNegative" -> JumpIfNegative(i)

\* what a compiler returns: err is "None", "ParserError" (e the lexer's
\* error), "UndefinedLabel" or "Panic"
Compilation(err, e, program) == [err |-> err, e |-> e, program |-> program]
NotRun == Compilation("NotRun", "None", <<>>)

\* the part the two compilers share: filter, label table, instructions;
\* `missing` is what an undefined label ends in
lower(tokens, missing) ==
    LET wj == without_junk(tokens)
        map == label_mapping(wj)
        undefined == {k \in 1..Len(wj) :
                        wj[k].tok \in JumpTokens /\ unmap(map, wj[k].id).err # "None"}
    IN IF undefined # {} THEN Compilation(missing, "None", <<>>)
       ELSE Compilation("None", "None",
                [k \in 1..Len(wj) |->
                    instruction(wj[k],
                        IF wj[k].tok \in JumpTokens THEN unmap(map, wj[k].id).v ELSE 0)])

\* Program::compile
compile(iterator) ==
    LET tokens == collect(iterator) IN
    IF tokens.err # "None" THEN Compilation("ParserError", tokens.err, <<>>)
    ELSE lower(tokens.v, "UndefinedLabel")

\* impl FromIterator<Token> for Program: `expect("Label is not defined")`
from_iter(tokens) == lower(tokens, "Panic")

\* ------------------------------------------------------------------------
\* The lexer (parser.rs); a text is a sequence of characters, a point an
\* offset into it
\* ------------------------------------------------------------------------
\* the literals of the productions
Literal ==
    [HEADER |->
        <<"-", "-", " ", "H", "U", "M", "A", "N", " ", "R", "E", "S", "O",
          "U", "R", "C", "E", " ", "M", "A", "C", "H", "I", "N", "E", " ",
          "P", "R", "O", "G", "R", "A", "M", " ", "-", "-">>,
     INBOX |-> <<"I", "N", "B", "O", "X">>,
     OUTBOX |-> <<"O", "U", "T", "B", "O", "X">>,
     COPYFROM |-> <<"C", "O", "P", "Y", "F", "R", "O", "M">>,
     COPYTO |-> <<"C", "O", "P", "Y", "T", "O">>,
     BUMPUP |-> <<"B", "U", "M", "P", "U", "P">>,
     BUMPDN |-> <<"B", "U", "M", "P", "D", "N">>,
     ADD |-> <<"A", "D", "D">>,
     SUB |-> <<"S", "U", "B">>,
     JUMP |-> <<"J", "U", "M", "P">>,
     JUMPZ |-> <<"J", "U", "M", "P", "Z">>,
     JUMPN |-> <<"J", "U", "M", "P", "N">>,
     COMMENT |-> <<"C", "O", "M", "M", "E", "N", "T">>,
     DEFINE_COMMENT |->
        <<"D", "E", "F", "I", "N", "E", " ", "C", "O", "M", "M", "E", "N",
          "T">>,
     DEFINE_LABEL |->
        <<"D", "E", "F", "I", "N", "E", " ", "L", "A", "B", "E", "L">>]

\* the mnemonic of BumpDown in the lexer of main.rs
BUMPDOWN == <<"B", "U", "M", "P", "D", "O", "W", "N">>

\* c.is_digit(10): the digit of value n is DigitChars[n + 1]
DigitChars == <<"0", "1", "2", "3", "4", "5", "6", "7", "8", "9">>

\* c >= 'a' && c <= 'z'
LowerChars ==
    {"a", "b", "c", "d", "e", "f", "g", "h", "i", "j", "k", "l", "m",
     "n", "o", "p", "q", "r", "s", "t", "u", "v", "w", "x", "y", "z"}

\* char::is_whitespace, for the characters of the texts lexed here
WhitespaceChars == {" ", "\n", "\t", "\r"}

\* the closure a call of string_point_consume_while is given, by name
satisfies(predicate, c) ==
    CASE predicate = "is_digit" -> \E n \in 1..10 : DigitChars[n] = c
      [] predicate = "is_lower" -> c \in LowerChars
      [] predicate = "is_whitespace" -> c \in WhitespaceChars
      [] predicate = "is_not_semicolon" -> c # ";"

\* the largest u8
U8_MAX == 255

\* Progress: Success at the point after the match with a value, Failure at the
\* point of the failure; Panic for the unwrap() that aborts the process
Success(point, val) == [status |-> "Success", point |-> point, val |-> val]
Failure(point) == [status |-> "Failure", point |-> point, val |-> <<>>]
Panic == [status |-> "Panic", point |-> 0, val |-> <<>>]

\* StringPoint::consume_literal
consume_literal(s, pt, lit) ==
    IF pt + Len(lit) <= Len(s) /\ SubSeq(s, pt + 1, pt + Len(lit)) = lit
    THEN Success(pt + Len(lit), lit)
    ELSE Failure(pt)

\* string_point_consume_while: the end is the first character that fails the
\* predicate, no end when that is the first character, the whole rest when
\* there is none (also when the rest is empty)
string_point_consume_while(s, pt, predicate) ==
    LET stops == {k \in (pt + 1)..Len(s) : ~satisfies(predicate, s[k])} IN
    IF stops = {} THEN Success(Len(s), SubSeq(s, pt + 1, Len(s)))
    ELSE LET end == CHOOSE k \in stops : \A j \in stops : k <= j IN
         IF end = pt + 1 THEN Failure(pt)
         ELSE Success(end - 1, SubSeq(s, pt + 1, end - 1))

\* the number a text of digits denotes
RECURSIVE Value(_)
Value(digits) ==
    IF digits = <<>> THEN 0
    ELSE Value(SubSeq(digits, 1, Len(digits) - 1)) * 10
            + ((CHOOSE n \in 1..10 : DigitChars[n] = digits[Len(digits)]) - 1)

\* str::parse::<u8>: Err for the empty text and for a value over 255
parse_u8(digits) ==
    IF digits = <<>> \/ Value(digits) > U8_MAX THEN Err("ParseIntError")
    ELSE Ok(Value(digits))

\* Each function below is its source function; a function that chains steps
\* with try_parse! is written as one operator per step, named after the step,
\* that takes the Progress of the step before it: a step that did not succeed
\* (Failure, or Panic) is the result of the whole function.

\* Progress::map(|_| token): the token in place of the matched text
map_token(progress, tok) ==
    IF progress.status # "Success" THEN progress
    ELSE Success(progress.point, Token(tok, NoReg, <<>>, <<>>))

parse_header(s, pt) == map_token(consume_literal(s, pt, Literal.HEADER), "Header")
parse_inbox(s, pt) == map_token(consume_literal(s, pt, Literal.INBOX), "Inbox")
parse_outbox(s, pt) == map_token(consume_literal(s, pt, Literal.OUTBOX), "Outbox")

\* Progress::map(Token::Whitespace)
map_whitespace(progress) ==
    IF progress.status # "Success" THEN progress
    ELSE Success(progress.point, Token("Whitespace", NoReg, <<>>, progress.val))

\* a run of whitespace, the Token holding its text
parse_whitespace(s, pt) ==
    map_whitespace(string_point_consume_while(s, pt, "is_whitespace"))

\* Progress::map(|v| v.parse().unwrap()): the process aborts when the run of
\* digits is no u8
map_parse_unwrap(progress) ==
    IF progress.status # "Success" THEN progress
    ELSE IF parse_u8(progress.val).err # "None" THEN Panic
    ELSE Success(progress.point, parse_u8(progress.val).v)

\* a run of digits made a u8
parse_register_value(s, pt) ==
    map_parse_unwrap(string_point_consume_while(s, pt, "is_digit"))

\* parse_register_indirect: "[", value, "]"
register_indirect_success(reg, close) ==
    IF close.status # "Success" THEN close
    ELSE Success(close.point, Indirect(reg))

register_indirect_close(s, reg) ==
    IF reg.status # "Success" THEN reg
    ELSE register_indirect_success(reg.val, consume_literal(s, reg.point, <<"]">>))

register_indirect_value(s, open) ==
    IF open.status # "Success" THEN open
    ELSE register_indirect_close(s, parse_register_value(s, open.point))

parse_register_indirect(s, pt) ==
    register_indirect_value(s, consume_literal(s, pt, <<"[">>))

\* Progress::map(Register::Direct)
map_direct(progress) ==
    IF progress.status # "Success" THEN progress
    ELSE Success(progress.point, Direct(progress.val))

\* parse_register: the indirect form, else the value as a Direct register
register_alternate(s, pt, indirect) ==
    IF indirect.status # "Failure" THEN indirect
    ELSE map_direct(parse_register_value(s, pt))

parse_register(s, pt) == register_alternate(s, pt, parse_register_indirect(s, pt))

\* parse_single_register_instruction: instruction_name, whitespace, register
single_register_success(reg, token_creator) ==
    IF reg.status # "Success" THEN reg
    ELSE Success(reg.point, Token(token_creator, reg.val, <<>>, <<>>))

single_register_register(s, space, token_creator) ==
    IF space.status # "Success" THEN space
    ELSE single_register_success(parse_register(s, space.point), token_creator)

single_register_whitespace(s, name, token_creator) ==
    IF name.status # "Success" THEN name
    ELSE single_register_register(s, parse_whitespace(s, name.point), token_creator)

parse_single_register_instruction(s, pt, instruction_name, token_creator) ==
    single_register_whitespace(s, consume_literal(s, pt, instruction_name), token_creator)

parse_copy_from(s, pt) == parse_single_register_instruction(s, pt, Literal.COPYFROM, "CopyFrom")
parse_copy_to(s, pt) == parse_single_register_instruction(s, pt, Literal.COPYTO, "CopyTo")
parse_bump_up(s, pt) == parse_single_register_instruction(s, pt, Literal.BUMPUP, "BumpUp")

\* parse_bump_down with the mnemonic BUMPDOWN
parse_bump_down_long(s, pt) == parse_single_register_instruction(s, pt, BUMPDOWN, "BumpDown")

parse_bump_down(s, pt) == parse_single_register_instruction(s, pt, Literal.BUMPDN, "BumpDown")
parse_add(s, pt) == parse_single_register_instruction(s, pt, Literal.ADD, "Add")
parse_sub(s, pt) == parse_single_register_instruction(s, pt, Literal.SUB, "Sub")

\* a run of lowercase letters
parse_label_value(s, pt) == string_point_consume_while(s, pt, "is_lower")

\* parse_label_definition: label value, ":"
label_definition_success(val, colon) ==
    IF colon.status # "Success" THEN colon
    ELSE Success(colon.point, Token("LabelDefinition", NoReg, val, <<>>))

label_definition_colon(s, val) ==
    IF val.status # "Success" THEN val
    ELSE label_definition_success(val.val, consume_literal(s, val.point, <<":">>))

parse_label_definition(s, pt) == label_definition_colon(s, parse_label_value(s, pt))

\* parse_jump_instruction: instruction_name, whitespace, label value
jump_success(lab, token_creator) ==
    IF lab.status # "Success" THEN lab
    ELSE Success(lab.point, Token(token_creator, NoReg, lab.val, <<>>))

jump_label(s, space, token_creator) ==
    IF space.status # "Success" THEN space
    ELSE jump_success(parse_label_value(s, space.point), token_creator)

jump_whitespace(s, name, token_creator) ==
    IF name.status # "Success" THEN name
    ELSE jump_label(s, parse_whitespace(s, name.point), token_creator)

parse_jump_instruction(s, pt, instruction_name, token_creator) ==
    jump_whitespace(s, consume_literal(s, pt, instruction_name), token_creator)

parse_jump(s, pt) == parse_jump_instruction(s, pt, Literal.JUMP, "Jump")
parse_jump_if_zero(s, pt) == parse_jump_instruction(s, pt, Literal.JUMPZ, "JumpIfZero")
parse_jump_if_negative(s, pt) == parse_jump_instruction(s, pt, Literal.JUMPN, "JumpIfNegative")

\* parse_comment_id and parse_register_label_id, parse_comment_data and
\* parse_register_label_data
parse_comment_id(s, pt) == string_point_consume_while(s, pt, "is_digit")
parse_comment_data(s, pt) == string_point_consume_while(s, pt, "is_not_semicolon")

\* parse_comment: "COMMENT", whitespace, id
comment_success(id) ==
    IF id.status # "Success" THEN id
    ELSE Success(id.point, Token("Comment", NoReg, id.val, <<>>))

comment_id(s, space) ==
    IF space.status # "Success" THEN space
    ELSE comment_success(parse_comment_id(s, space.point))

comment_whitespace(s, name) ==
    IF name.status # "Success" THEN name
    ELSE comment_id(s, parse_whitespace(s, name.point))

parse_comment(s, pt) == comment_whitespace(s, consume_literal(s, pt, Literal.COMMENT))

\* parse_comment_definition and parse_register_label_definition: literal,
\* whitespace, id, whitespace, data, ";"; both make a Token::CommentDefinition
definition_success(id, data, end) ==
    IF end.status # "Success" THEN end
    ELSE Success(end.point, Token("CommentDefinition", NoReg, id, data))

definition_end(s, id, data) ==
    IF data.status # "Success" THEN data
    ELSE definition_success(id, data.val, consume_literal(s, data.point, <<";">>))

definition_data(s, id, space) ==
    IF space.status # "Success" THEN space
    ELSE definition_end(s, id, parse_comment_data(s, space.point))

definition_whitespace(s, id) ==
    IF id.status # "Success" THEN id
    ELSE definition_data(s, id.val, parse_whitespace(s, id.point))

definition_id(s, space) ==
    IF space.status # "Success" THEN space
    ELSE definition_whitespace(s, parse_comment_id(s, space.point))

definition_literal(s, name) ==
    IF name.status # "Success" THEN name
    ELSE definition_id(s, parse_whitespace(s, name.point))

parse_comment_definition(s, pt) ==
    definition_literal(s, consume_literal(s, pt, Literal.DEFINE_COMMENT))

parse_register_label_definition(s, pt) ==
    definition_literal(s, consume_literal(s, pt, Literal.DEFINE_LABEL))

\* the alternatives of next(), in the order of the .one(..) calls
Productions == 17
production(k, s, pt) ==
    CASE k = 1 -> parse_header(s, pt)
      [] k = 2 -> parse_inbox(s, pt)
      [] k = 3 -> parse_outbox(s, pt)
      [] k = 4 -> parse_copy_from(s, pt)
      [] k = 5 -> parse_copy_to(s, pt)
      [] k = 6 -> parse_bump_up(s, pt)
      [] k = 7 -> parse_bump_down(s, pt)
      [] k = 8 -> parse_add(s, pt)
      [] k = 9 -> parse_sub(s, pt)
      [] k = 10 -> parse_label_definition(s, pt)
      [] k = 11 -> parse_jump(s, pt)
      [] k = 12 -> parse_jump_if_zero(s, pt)
      [] k = 13 -> parse_jump_if_negative(s, pt)
      [] k = 14 -> parse_comment(s, pt)
      [] k = 15 -> parse_comment_definition(s, pt)
      [] k = 16 -> parse_register_label_definition(s, pt)
      [] k = 17 -> parse_whitespace(s, pt)

RECURSIVE alternate(_, _, _)
\* Alternate::one running the next alternative from where the current failed
alternate_one_no_backtrack(s, pt, k, current) ==
    IF current.status = "Failure" THEN alternate(s, current.point, k + 1) ELSE current

\* Alternate::one: the next alternative runs, from the same point pt, when the
\* current one failed; otherwise the current one is the result
alternate_one(s, pt, k, current) ==
    IF current.status = "Failure" THEN alternate(s, pt, k + 1) ELSE current

\* pm.alternate().one(..)...finish() from alternative k on
alternate(s, pt, k) ==
    IF k > Productions THEN Failure(pt)
    ELSE alternate_one(s, pt, k, production(k, s, pt))

\* finish moving self.point past the character where lexing failed
finish_skips_failure(pt, tmp) ==
    CASE tmp.status = "Success" -> [ret |-> "Ok", point |-> tmp.point, tok |-> tmp.val]
      [] tmp.status = "Failure" -> [ret |-> "Err", point |-> pt + 1, tok |-> NoToken]
      [] tmp.status = "Panic" -> [ret |-> "Panic", point |-> pt, tok |-> NoToken]

\* next(): the match on pm.finish(tmp)
finish(pt, tmp) ==
    CASE tmp.status = "Success" -> [ret |-> "Ok", point |-> tmp.point, tok |-> tmp.val]
      [] tmp.status = "Failure" -> [ret |-> "Err", point |-> pt, tok |-> NoToken]
      [] tmp.status = "Panic" -> [ret |-> "Panic", point |-> pt, tok |-> NoToken]

\* Parser::next at point pt of text s: None at the end of s, Some(Ok(tok)) and
\* the new point, or Some(Err(..)) and the same point; Panic if it aborted
next(s, pt) ==
    IF pt >= Len(s) THEN [ret |-> "None", point |-> pt, tok |-> NoToken]
    ELSE finish(pt, alternate(s, pt, 1))

\* ------------------------------------------------------------------------
\* State
\* ------------------------------------------------------------------------
VARIABLES
    program,      \* Machine.program, never written after new
    input,        \* Machine.input, the supplied input reversed
    output,       \* Machine.output
    pc,           \* Machine.pc
    accumulator,  \* Machine.accumulator
    registers,    \* Machine.registers
    mode,         \* the caller: "stepping", "running" (inside run), "returned", "panicked"
    run_ret,      \* what run returned: "None" until it returns, then "Ok" or the error
    supplied,     \* history: the input the caller passed to new
    inboxed,      \* history: how many Inbox steps popped a tile
    last,         \* history: the last step, its instruction, result and the state before
    tokens,       \* compiler: the token stream handed to compile / from_iter
    compile_ret,  \* compiler: what Program::compile returned, NotRun before
    from_iter_ret, \* compiler: what Program::from_iter returned, NotRun before
    compiled,     \* history: what each call of Program::compile returned, in order
    source,       \* lexer: the text the Parser was made of
    offset,       \* lexer: self.point.offset
    lexed,        \* lexer: the tokens next() returned so far
    lex_ret,      \* lexer: the last return of next(), "Start" before
    lex_from      \* history: the offset at the last call of next()

machine_vars == <<program, input, output, pc, accumulator, registers, mode, run_ret,
                  supplied, inboxed, last>>

compiler_vars == <<tokens, compile_ret, from_iter_ret, compiled>>

lexer_vars == <<source, offset, lexed, lex_ret, lex_from>>

vars == <<machine_vars, compiler_vars, lexer_vars>>

\* the Machine as a value
self == [program |-> program, input |-> input, output |-> output, pc |-> pc,
         accumulator |-> accumulator, registers |-> registers]

\* the fields step may write
Fields(m) == [input |-> m.input, output |-> m.output, pc |-> m.pc,
              accumulator |-> m.accumulator, registers |-> m.registers]

\* ------------------------------------------------------------------------
\* Inputs of the model
\* ------------------------------------------------------------------------
\* the register operands programs use
Operands == {Direct(0), Indirect(0)}

\* the instructions programs are made of
Instrs ==
    {Inbox, Outbox, NoOp}
    \cup {[op |-> o, r |-> r, i |-> 0] : o \in RegisterOps, r \in Operands}
    \cup {[op |-> o, r |-> NoReg, i |-> i] : o \in JumpOps, i \in 0..(MaxProgLen - 1)}

\* what compile guarantees of a Program: every jump target is the index of a
\* LabelDefinition's NoOp inside the Program
Compiled(p) ==
    \A k \in 1..Len(p) :
        p[k].op \in JumpOps => (p[k].i < Len(p) /\ p[k].i + 1 \in 1..Len(p) /\ p[p[k].i + 1] = NoOp)

Programs == {p \in UNION {[1..n -> Instrs] : n \in 0..MaxProgLen} : Compiled(p)}

\* tiles the caller puts in the inbox: a Number and the Letter 'a'
InputTiles == {Number(0), Letter(97)}

Inputs == UNION {[1..n -> InputTiles] : n \in 0..MaxInput}

\* initial register files (level.rs builds such maps with Tile::num and
\* Tile::Letter); the Letters are 'b' and U+10061
InitialRegisters ==
    {<<>>,
     (0 :> Number(0)),
     (0 :> Number(-1)),
     (0 :> Number(1)) @@ (1 :> Number(-999)),
     (0 :> Number(257)) @@ (1 :> Number(999)),
     (0 :> Letter(98)),
     (0 :> Letter(65633))}

NoInstr == [op |-> "None", r |-> NoReg, i |-> 0]

\* ------------------------------------------------------------------------
\* Specification of the machine
\* ------------------------------------------------------------------------
\* no compiler at work
NoCompiler ==
    /\ tokens = <<>>
    /\ compile_ret = NotRun
    /\ from_iter_ret = NotRun
    /\ compiled = <<>>

\* no lexer at work
NoLexer ==
    /\ source = <<>>
    /\ offset = 0
    /\ lexed = <<>>
    /\ lex_ret = "Start"
    /\ lex_from = 0

Init ==
    \E p \in Programs, inp \in Inputs, regs \in InitialRegisters :
        LET m == new(p, inp, regs) IN
        /\ program = m.program
        /\ input = m.input
        /\ output = m.output
        /\ pc = m.pc
        /\ accumulator = m.accumulator
        /\ registers = m.registers
        /\ mode = "stepping"
        /\ run_ret = "None"
        /\ supplied = inp
        /\ inboxed = 0
        /\ last = [instr |-> NoInstr, res |-> "None", pre |-> Fields(m)]
        /\ NoCompiler
        /\ NoLexer

\* the machine after a call of step that returned r, and the history of it
Stepped(r) ==
    /\ program' = r.m.program
    /\ input' = r.m.input
    /\ output' = r.m.output
    /\ pc' = r.m.pc
    /\ accumulator' = r.m.accumulator
    /\ registers' = r.m.registers
    /\ supplied' = supplied
    /\ inboxed' = IF r.res # "Panic" /\ program[pc + 1].op = "Inbox" /\ Len(input) > 0
                  THEN inboxed + 1 ELSE inboxed
    /\ last' = [instr |-> IF r.res = "Panic" THEN NoInstr ELSE program[pc + 1],
                res |-> r.res,
                pre |-> Fields(self)]
    /\ UNCHANGED <<compiler_vars, lexer_vars>>

\* the caller calls step()
Step ==
    /\ mode = "stepping"
    /\ LET r == step(self) IN
       /\ Stepped(r)
       /\ mode' = IF r.res = "Panic" THEN "panicked" ELSE "stepping"
       /\ run_ret' = run_ret

\* the caller calls run(), or run() goes round its loop once more
Run ==
    /\ mode \in {"stepping", "running"}
    /\ LET r == step(self) IN
       /\ Stepped(r)
       /\ IF r.res = "Panic"
          THEN mode' = "panicked" /\ run_ret' = run_ret
          ELSE LET k == run_match(r.res) IN
               /\ mode' = IF k.continue THEN "running" ELSE "returned"
               /\ run_ret' = k.ret

Next == Step \/ Run

Spec == Init /\ [][Next]_vars

\* ------------------------------------------------------------------------
\* Specification of the machine on short programs over many tiles
\* ------------------------------------------------------------------------
\* the tiles of inbox and registers: Numbers at the ends and in the middle of
\* [-999, 999], the Letters 'a', 'b', U+03E8, U+03E9 and U+10061
OperandTiles ==
    {Number(-999), Number(-1), Number(0), Number(1), Number(999),
     Letter(97), Letter(98), Letter(1000), Letter(1001), Letter(65633)}

\* the instructions that take a register, over a direct and an indirect operand
OperandInstrs ==
    {[op |-> o, r |-> r, i |-> 0] : o \in RegisterOps, r \in {Direct(0), Indirect(1)}}

\* one instruction, run on an empty accumulator or after an Inbox, and a
\* CopyTo followed at once by a CopyFrom
OperandPrograms ==
    {<<i>> : i \in OperandInstrs}
    \cup {<<Inbox, i>> : i \in OperandInstrs}
    \cup {<<Inbox, CopyTo(r), CopyFrom(q)>> : r, q \in {Direct(0), Indirect(1)}}

\* register 0 holds any tile or nothing, register 1 points at register 0, at
\* itself, or holds nothing
OperandRegisters ==
    {<<>>, (1 :> Number(0)), (1 :> Number(1))}
    \cup {(0 :> t) : t \in OperandTiles}
    \cup {(0 :> t) @@ (1 :> n) : t \in OperandTiles, n \in {Number(0), Number(1)}}

InitOperands ==
    \E p \in OperandPrograms, inp \in {<<>>} \cup {<<t>> : t \in OperandTiles},
       regs \in OperandRegisters :
        LET m == new(p, inp, regs) IN
        /\ program = m.program
        /\ input = m.input
        /\ output = m.output
        /\ pc = m.pc
        /\ accumulator = m.accumulator
        /\ registers = m.registers
        /\ mode = "stepping"
        /\ run_ret = "None"
        /\ supplied = inp
        /\ inboxed = 0
        /\ last = [instr |-> NoInstr, res |-> "None", pre |-> Fields(m)]
        /\ NoCompiler
        /\ NoLexer

SpecOperands == InitOperands /\ [][Next]_vars

\* ------------------------------------------------------------------------
\* run() of the copy loop `a:`, `INBOX`, `OUTBOX`, `JUMP a` on the levels that
\* copy the inbox to the outbox: any input, no registers
MaxLoopInput == 3

CopyLoop ==
    compile(<<OkToken(Token("LabelDefinition", NoReg, <<"a">>, <<>>)),
              OkToken(Token("Inbox", NoReg, <<>>, <<>>)),
              OkToken(Token("Outbox", NoReg, <<>>, <<>>)),
              OkToken(Token("Jump", NoReg, <<"a">>, <<>>))>>).program

InitCopyLoop ==
    \E inp \in UNION {[1..n -> {Number(1), Number(2), Number(3), Letter(105)}] :
                         n \in 0..MaxLoopInput} :
        LET m == new(CopyLoop, inp, <<>>) IN
        /\ program = m.program
        /\ input = m.input
        /\ output = m.output
        /\ pc = m.pc
        /\ accumulator = m.accumulator
        /\ registers = m.registers
        /\ mode = "stepping"
        /\ run_ret = "None"
        /\ supplied = inp
        /\ inboxed = 0
        /\ last = [instr |-> NoInstr, res |-> "None", pre |-> Fields(m)]
        /\ NoCompiler
        /\ NoLexer

\* run() is a sequential loop: it goes on as long as it has not returned
SpecCopyLoop == InitCopyLoop /\ [][Run]_vars /\ WF_vars(Run)

\* run() on a new machine whose Program has an instruction and no jump
MaxStraightLen == 2

InitStraight ==
    /\ Init
    /\ Len(program) \in 1..MaxStraightLen
    /\ \A k \in 1..Len(program) : program[k].op \notin JumpOps
    /\ supplied \in {<<>>, <<Number(0)>>, <<Letter(97), Number(0)>>}
    /\ registers \in {<<>>, (0 :> Number(0))}

SpecStraight == InitStraight /\ [][Run]_vars /\ WF_vars(Run)

\* ------------------------------------------------------------------------
\* Specification of the compiler
\* ------------------------------------------------------------------------
\* longest token stream drawn in InitCompile
MaxTokens == 3

\* most calls of compile on one stream
MaxCompiles == 2

\* the items token streams are made of: every Token variant, two labels and
\* two lexer failures
CompileItems ==
    {OkToken(Token(t, NoReg, <<>>, <<>>)) : t \in {"Header", "Whitespace", "Inbox", "Outbox"}}
    \cup {OkToken(Token("Comment", NoReg, <<"1">>, <<>>)),
          OkToken(Token("CommentDefinition", NoReg, <<"1">>, <<"x">>))}
    \cup {OkToken(Token("CopyFrom", Direct(0), <<>>, <<>>)),
          OkToken(Token("CopyTo", Indirect(0), <<>>, <<>>)),
          OkToken(Token("BumpUp", Direct(1), <<>>, <<>>)),
          OkToken(Token("BumpDown", Indirect(1), <<>>, <<>>)),
          OkToken(Token("Add", Direct(2), <<>>, <<>>)),
          OkToken(Token("Sub", Indirect(2), <<>>, <<>>))}
    \cup {OkToken(Token(t, NoReg, l, <<>>)) :
            t \in JumpTokens \cup {"LabelDefinition"}, l \in {<<"a">>, <<"b">>}}
    \cup {LexErr("E1"), LexErr("E2")}

TokenStreams == UNION {[1..n -> CompileItems] : n \in 0..MaxTokens}

\* no machine at work: the machine of the empty Program, never stepped
NoMachine ==
    LET m == new(<<>>, <<>>, <<>>) IN
    /\ program = m.program
    /\ input = m.input
    /\ output = m.output
    /\ pc = m.pc
    /\ accumulator = m.accumulator
    /\ registers = m.registers
    /\ mode = "none"
    /\ run_ret = "None"
    /\ supplied = <<>>
    /\ inboxed = 0
    /\ last = [instr |-> NoInstr, res |-> "None", pre |-> Fields(m)]

InitCompile ==
    /\ NoMachine
    /\ NoLexer
    /\ tokens \in TokenStreams
    /\ compile_ret = NotRun
    /\ from_iter_ret = NotRun
    /\ compiled = <<>>

\* Compile whose second call is handed the iterator the first call left
\* behind, at its second item
Compile_consumed_iterator ==
    /\ tokens \in TokenStreams
    /\ Len(compiled) < MaxCompiles
    /\ compile_ret' = compile(IF compiled = <<>> \/ tokens = <<>> THEN tokens ELSE Tail(tokens))
    /\ compiled' = Append(compiled, compile_ret')
    /\ UNCHANGED <<tokens, from_iter_ret, machine_vars, lexer_vars>>

\* the caller hands the stream to Program::compile, once or once more
Compile ==
    /\ tokens \in TokenStreams
    /\ Len(compiled) < MaxCompiles
    /\ compile_ret' = compile(tokens)
    /\ compiled' = Append(compiled, compile_ret')
    /\ UNCHANGED <<tokens, from_iter_ret, machine_vars, lexer_vars>>

\* the caller collects the tokens into a Program (FromIterator); the stream
\* holds Tokens, so no lexer failure
FromIter ==
    /\ from_iter_ret = NotRun
    /\ collect(tokens).err = "None"
    /\ from_iter_ret' = from_iter(collect(tokens).v)
    /\ UNCHANGED <<tokens, compile_ret, compiled, machine_vars, lexer_vars>>

NextCompile == Compile \/ FromIter

SpecCompile == InitCompile /\ [][NextCompile]_vars

\* ------------------------------------------------------------------------
\* Specification of the lexer
\* ------------------------------------------------------------------------
\* most pieces a text lexed in InitLex is made of
MaxPieces == 3

\* the pieces of the texts: the literals of the productions, the mnemonic
\* BUMPDOWN, whitespace, letters, numerals and punctuation
Lexicon ==
    {Literal.HEADER, Literal.INBOX, Literal.OUTBOX, Literal.COPYFROM,
     Literal.COPYTO, Literal.BUMPUP, Literal.BUMPDN, BUMPDOWN, Literal.ADD,
     Literal.SUB, Literal.JUMP, Literal.JUMPZ, Literal.JUMPN, Literal.COMMENT,
     Literal.DEFINE_COMMENT, Literal.DEFINE_LABEL,
     <<" ">>, <<"\n">>, <<"a">>, <<":">>, <<" ", "2", "5">>, <<"5">>, <<"6">>,
     <<" ", "[", "0", "]">>, <<" ", "[">>, <<"]">>, <<" ", "x", ";">>}

\* the texts made of n pieces
RECURSIVE Texts(_)
Texts(n) ==
    IF n = 0 THEN {<<>>}
    ELSE {t \o piece : t \in Texts(n - 1), piece \in Lexicon}

Sources == UNION {Texts(n) : n \in 0..MaxPieces}

InitLex ==
    /\ NoMachine
    /\ NoCompiler
    /\ source \in Sources
    /\ offset = 0
    /\ lexed = <<>>
    /\ lex_ret = "Start"
    /\ lex_from = 0

\* the Parser and the caller after next() returned r
Returned(r) ==
    /\ lex_ret' = r.ret
    /\ offset' = r.point
    /\ lexed' = IF r.ret = "Ok" THEN Append(lexed, r.tok) ELSE lexed

\* the caller asks the Parser for the next token, also after a lex failure;
\* it stops asking at the end of the text and when the process aborted
LexNext ==
    /\ lex_ret \in {"Start", "Ok", "Err"}
    /\ Returned(next(source, offset))
    /\ lex_from' = offset
    /\ UNCHANGED <<source, machine_vars, compiler_vars>>

SpecLex == InitLex /\ [][LexNext]_vars

\* ------------------------------------------------------------------------
\* Vocabulary of the properties
\* ------------------------------------------------------------------------
\* a step has been made and it fetched an instruction
Stepped1 == last.instr # NoInstr

\* the runtime errors other than EndOfProgram
RuntimeErrors ==
    {"IndirectThroughNil", "IndirectThroughNegative", "IndirectThroughLetter",
     "OutputNil", "CopyFromNil", "CopyToNil", "BumpNil", "BumpLetter",
     "AddToNil", "AddWithNil", "AddWithLetter", "SubFromNil", "SubWithNil",
     "SubCrossTypes", "JumpZeroNil", "JumpNegativeNil", "Overflow", "Underflow"}

IndirectErrors ==
    {"IndirectThroughNil", "IndirectThroughNegative", "IndirectThroughLetter"}

InRange(t) == t.kind = "Number" => (t.v >= -999 /\ t.v <= 999)

\* s is a prefix of t
IsPrefix(s, t) == Len(s) <= Len(t) /\ SubSeq(t, 1, Len(s)) = s

\* the register an operand names in register file regs, as the specification
\* defines it: n for Direct(n), the Number held in register p for Indirect(p);
\* -1 when an indirect operand does not resolve
Named(regs, r) ==
    IF ~r.ind THEN r.n
    ELSE IF r.n \in DOMAIN regs /\ regs[r.n].kind = "Number" /\ regs[r.n].v >= 0
         THEN regs[r.n].v
         ELSE -1

\* the last step's two operands are present: the accumulator and the named register
HasOperands ==
    /\ last.pre.accumulator # None
    /\ Named(last.pre.registers, last.instr.r) \in DOMAIN last.pre.registers

LastAcc == last.pre.accumulator[1]
LastReg == last.pre.registers[Named(last.pre.registers, last.instr.r)]

\* the exact (unbounded integer) result of the last step's arithmetic, as a
\* one-element sequence, or <<>> when the step has no arithmetic result
ExactResult ==
    IF last.instr.op \in {"BumpUp", "BumpDown"}
    THEN IF Named(last.pre.registers, last.instr.r) \in DOMAIN last.pre.registers
            /\ LastReg.kind = "Number"
         THEN <<LastReg.v + (IF last.instr.op = "BumpUp" THEN 1 ELSE -1)>>
         ELSE <<>>
    ELSE IF last.instr.op = "Add" /\ HasOperands
            /\ LastAcc.kind = "Number" /\ LastReg.kind = "Number"
    THEN <<LastAcc.v + LastReg.v>>
    ELSE IF last.instr.op = "Sub" /\ HasOperands /\ LastAcc.kind = LastReg.kind
    THEN <<LastAcc.v - LastReg.v>>
    ELSE <<>>

\* ------------------------------------------------------------------------
\* C1
\* ------------------------------------------------------------------------
\* C1, first half: every Number tile in the accumulator, a register or the
\* output is within [-999, 999].
NumbersClamped ==
    /\ \A k \in 1..Len(accumulator) : InRange(accumulator[k])
    /\ \A k \in DOMAIN registers : InRange(registers[k])
    /\ \A k \in 1..Len(output) : InRange(output[k])

\* C1: every Number tile held in the accumulator, in a register or in the
\* output is within [-999, 999], and an Add, Sub, BumpUp or BumpDown whose
\* exact result is greater than 999 fails with Overflow, one whose exact
\* result is less than -999 fails with Underflow.
C1_Clamping ==
    /\ NumbersClamped
    /\ (Stepped1 /\ ExactResult # <<>>) =>
          /\ ExactResult[1] > 999 => last.res = "Overflow"
          /\ ExactResult[1] < -999 => last.res = "Underflow"

\* ------------------------------------------------------------------------
\* C2
\* ------------------------------------------------------------------------
\* C2: a step that fails with a runtime error other than EndOfProgram leaves
\* pc, accumulator, registers, input and output as they were before the step.
C2_FailedStepChangesNothing ==
    (Stepped1 /\ last.res \in RuntimeErrors) => Fields(self) = last.pre

\* a BumpUp of a register holding 999 has failed with Overflow
C2_Witness ==
    /\ last.instr.op = "BumpUp"
    /\ last.res = "Overflow"
    /\ Fields(self) = last.pre

\* ------------------------------------------------------------------------
\* C3
\* ------------------------------------------------------------------------
\* C3: run() goes on exactly while steps return Ok; at the first other result
\* it returns, success if and only if the step reported EndOfProgram and that
\* step's error otherwise, and the output produced so far is kept.
C3_RunStopsAtFirstNonOk ==
    /\ mode = "running" => (last.res = "Ok" /\ run_ret = "None")
    /\ mode = "stepping" => run_ret = "None"
    /\ mode = "returned" =>
          /\ last.res \in RuntimeErrors \cup {"EndOfProgram"}
          /\ (run_ret = "Ok") <=> (last.res = "EndOfProgram")
          /\ last.res # "EndOfProgram" => run_ret = last.res
          /\ IsPrefix(last.pre.output, output)
          /\ last.res \in RuntimeErrors => output = last.pre.output

\* run() has returned a runtime error after an earlier step wrote output
C3_Witness ==
    /\ mode = "returned"
    /\ run_ret \in RuntimeErrors
    /\ Len(output) > 0

\* ------------------------------------------------------------------------
\* C4
\* ------------------------------------------------------------------------
\* C4: Inbox on an empty input reports EndOfProgram and changes nothing, and
\* run() returns success on it.
C4_InboxOnEmptyInput ==
    (Stepped1 /\ last.instr.op = "Inbox" /\ Len(last.pre.input) = 0) =>
        /\ last.res = "EndOfProgram"
        /\ Fields(self) = last.pre
        /\ mode \in {"stepping", "returned"}
        /\ mode = "returned" => run_ret = "Ok"

\* run() has returned on an Inbox that found the input empty, output written
C4_Witness ==
    /\ last.instr.op = "Inbox"
    /\ Len(last.pre.input) = 0
    /\ mode = "returned"
    /\ run_ret = "Ok"
    /\ Len(output) > 0

\* ------------------------------------------------------------------------
\* C5
\* ------------------------------------------------------------------------
\* the last step executed its instruction to the end without jumping
NonJumpingDone ==
    /\ Stepped1
    /\ last.res \in {"Ok", "EndOfProgram"}
    /\ last.instr.op # "Jump"
    /\ last.instr.op = "Inbox" => Len(last.pre.input) > 0
    /\ last.instr.op \in {"JumpIfZero", "JumpIfNegative"} => last.pre.accumulator # None
    /\ last.instr.op = "JumpIfZero" =>
          ~(LastAcc.kind = "Number" /\ LastAcc.v = 0)
    /\ last.instr.op = "JumpIfNegative" =>
          ~(LastAcc.kind = "Number" /\ LastAcc.v < 0)

\* C5 as stated: after a non-jumping instruction pc is one greater, and the
\* step reports EndOfProgram if the new pc exceeds the Program length and Ok
\* otherwise.
C5_Original ==
    NonJumpingDone =>
        /\ pc = last.pre.pc + 1
        /\ last.res = (IF pc > Len(program) THEN "EndOfProgram" ELSE "Ok")

\* C5 amended: after a non-jumping instruction pc is one greater, and the step
\* reports EndOfProgram if the new pc is greater than or equal to the Program
\* length and Ok otherwise.
C5_PcAdvances ==
    NonJumpingDone =>
        /\ pc = last.pre.pc + 1
        /\ last.res = (IF pc >= Len(program) THEN "EndOfProgram" ELSE "Ok")

\* a conditional jump whose test is false has fallen through with Ok
C5_Witness ==
    /\ NonJumpingDone
    /\ last.instr.op \in {"JumpIfZero", "JumpIfNegative"}
    /\ last.res = "Ok"
    /\ pc = last.pre.pc + 1

\* ------------------------------------------------------------------------
\* C6
\* ------------------------------------------------------------------------
\* what resolving Indirect(p) in register file regs must give:
\* "None" for success, else the error
IndirectOutcome(regs, p) ==
    IF p \notin DOMAIN regs THEN "IndirectThroughNil"
    ELSE IF regs[p].kind = "Letter" THEN "IndirectThroughLetter"
    ELSE IF regs[p].v < 0 THEN "IndirectThroughNegative"
    ELSE "None"

\* register indices the properties quantify over
SomeRegisters == {0, 1, 2, 255}

\* C6: resolving Indirect(p) succeeds if and only if registers[p] holds a
\* Number that is not negative, and fails with IndirectThroughNil, -Negative
\* or -Letter when it is absent, a negative Number or a Letter; resolving
\* Direct(n) always succeeds with n.  Stated of deref_target on the current
\* register file and of the result of the last step.
C6_IndirectResolution ==
    /\ \A n \in SomeRegisters :
          /\ deref_target(self, Direct(n)) = Ok(n)
          /\ deref_target(self, Indirect(n)).err = IndirectOutcome(registers, n)
    /\ (Stepped1 /\ last.instr.op \in RegisterOps /\ last.instr.r.ind
        /\ ~(last.instr.op = "CopyTo" /\ last.pre.accumulator = None)) =>
          IF IndirectOutcome(last.pre.registers, last.instr.r.n) = "None"
          THEN last.res \notin IndirectErrors
          ELSE last.res = IndirectOutcome(last.pre.registers, last.instr.r.n)

\* an instruction with an Indirect operand has resolved it and been executed
C6_Witness ==
    /\ Stepped1
    /\ last.instr.op \in RegisterOps
    /\ last.instr.r.ind
    /\ IndirectOutcome(last.pre.registers, last.instr.r.n) = "None"
    /\ last.res = "Ok"

\* ------------------------------------------------------------------------
\* C7
\* ------------------------------------------------------------------------
\* C7: whenever resolving Indirect(p) succeeds, the resolved register index
\* equals the value of the Number held in registers[p].  Stated of the
\* operand of the step just made, resolved in the register file it ran on.
C7_ResolvedIndexIsValue ==
    (Stepped1 /\ last.instr.op \in RegisterOps /\ last.instr.r.ind
     /\ deref_target([registers |-> last.pre.registers], last.instr.r).err = "None") =>
        deref_target([registers |-> last.pre.registers], last.instr.r).v
            = last.pre.registers[last.instr.r.n].v

\* ------------------------------------------------------------------------
\* C8
\* ------------------------------------------------------------------------
\* C8: an instruction with a register operand resolves the operand before any
\* other check: when the operand is Indirect(p) and does not resolve, the
\* step reports the IndirectThrough* error whatever the accumulator holds.
C8_OperandResolvedFirst ==
    (Stepped1 /\ last.instr.op \in RegisterOps /\ last.instr.r.ind
     /\ IndirectOutcome(last.pre.registers, last.instr.r.n) # "None") =>
        last.res = IndirectOutcome(last.pre.registers, last.instr.r.n)

\* ------------------------------------------------------------------------
\* C9
\* ------------------------------------------------------------------------
\* the tiles not yet taken, in the order the caller supplied them
Remaining == Reverse(input)

\* C9: the k-th Inbox that finds a tile sets the accumulator to the k-th tile
\* of the supplied input and removes exactly that tile; no other instruction
\* changes the input.
C9_InputFrontToBack ==
    /\ inboxed <= Len(supplied)
    /\ Remaining = SubSeq(supplied, inboxed + 1, Len(supplied))
    /\ (Stepped1 /\ last.instr.op = "Inbox" /\ Len(last.pre.input) > 0) =>
          /\ inboxed >= 1
          /\ accumulator = Some(supplied[inboxed])
          /\ Len(input) = Len(last.pre.input) - 1
    /\ (Stepped1 /\ last.instr.op # "Inbox") => input = last.pre.input

\* the second Inbox has taken the second of two different tiles
C9_Witness ==
    /\ last.instr.op = "Inbox"
    /\ inboxed = 2
    /\ supplied[1] # supplied[2]
    /\ accumulator = Some(supplied[2])

\* ------------------------------------------------------------------------
\* C10
\* ------------------------------------------------------------------------
\* C10: the output before a step is a prefix of the output after it; an
\* Outbox with a tile in the accumulator appends exactly that tile, an Outbox
\* with an empty accumulator fails with OutputNil, and every other
\* instruction leaves the output unchanged.
C10_OutputAppendOnly ==
    Stepped1 =>
        /\ IsPrefix(last.pre.output, output)
        /\ (last.instr.op = "Outbox" /\ last.pre.accumulator # None) =>
              /\ output = Append(last.pre.output, last.pre.accumulator[1])
              /\ last.res \in {"Ok", "EndOfProgram"}
        /\ (last.instr.op = "Outbox" /\ last.pre.accumulator = None) =>
              /\ last.res = "OutputNil"
              /\ output = last.pre.output
        /\ last.instr.op # "Outbox" => output = last.pre.output

\* a second Outbox has appended to an output that already held a tile
C10_Witness ==
    /\ last.instr.op = "Outbox"
    /\ Len(last.pre.output) = 1
    /\ Len(output) = 2

\* ------------------------------------------------------------------------
\* C11
\* ------------------------------------------------------------------------
\* the register indices whose entry (presence or tile) the last step changed
ChangedRegisters ==
    {k \in DOMAIN registers \cup DOMAIN last.pre.registers :
        \/ k \notin DOMAIN registers
        \/ k \notin DOMAIN last.pre.registers
        \/ registers[k] # last.pre.registers[k]}

\* C11: only CopyTo, BumpUp and BumpDown change the register file; every
\* other instruction, successful or not, leaves every entry as it was, and a
\* CopyTo, BumpUp or BumpDown changes at most the one register its operand
\* resolves to.
C11_RegistersFrame ==
    Stepped1 =>
        /\ last.instr.op \notin {"CopyTo", "BumpUp", "BumpDown"} =>
              registers = last.pre.registers
        /\ last.instr.op \in {"CopyTo", "BumpUp", "BumpDown"} =>
              /\ Cardinality(ChangedRegisters) <= 1
              /\ ~last.instr.r.ind => ChangedRegisters \subseteq {last.instr.r.n}
              /\ (last.instr.r.ind /\ Named(last.pre.registers, last.instr.r) < 256) =>
                    ChangedRegisters \subseteq {Named(last.pre.registers, last.instr.r)}

\* a CopyTo through an Indirect operand has written the register it names
C11_Witness ==
    /\ last.instr.op = "CopyTo"
    /\ last.instr.r.ind
    /\ ChangedRegisters = {Named(last.pre.registers, last.instr.r)}

\* ------------------------------------------------------------------------
\* ------------------------------------------------------------------------
\* Properties of the compiler
\* ------------------------------------------------------------------------
\* the stream holds no lexer failure
NoLexFailure == \A k \in 1..Len(tokens) : tokens[k].err = "None"

\* the positions of the stream whose token is kept by the filter
Meaningful ==
    {k \in 1..Len(tokens) : tokens[k].err = "None" /\ tokens[k].v.tok \notin JunkTokens}

\* the 0-based index in the filtered sequence of the token at position k
FilteredIndex(k) == Cardinality({j \in Meaningful : j < k})

\* the positions of the LabelDefinition tokens that define id
Definitions(id) ==
    {k \in Meaningful : tokens[k].v.tok = "LabelDefinition" /\ tokens[k].v.id = id}

\* the positions of the jump tokens
Jumps == {k \in Meaningful : tokens[k].v.tok \in JumpTokens}

\* the instruction compile made of the token at position k
Compiled_at(k) == compile_ret.program[FilteredIndex(k) + 1]

\* instruction ins is the translation of token t, whatever a jump's target
Translates(t, ins) ==
    IF t.tok = "LabelDefinition" THEN ins = NoOp
    ELSE IF t.tok \in JumpTokens THEN ins.op = t.tok /\ ins.r = NoReg
    ELSE ins = [op |-> t.tok, r |-> t.r, i |-> 0]

\* Program p has one instruction per kept token, its translation
OneToOne(p) ==
    /\ Len(p) = Cardinality(Meaningful)
    /\ \A k \in Meaningful : Translates(tokens[k].v, p[FilteredIndex(k) + 1])

\* C12: for a stream with no lex failure, compile fails with UndefinedLabel
\* exactly when some jump token names a label no LabelDefinition of the stream
\* defines, and succeeds otherwise, also when a label is defined after the jump
C12_UndefinedLabel ==
    (compile_ret # NotRun /\ NoLexFailure) =>
        /\ compile_ret.err \in {"None", "UndefinedLabel"}
        /\ compile_ret.err = "UndefinedLabel" <=>
              \E k \in Jumps : Definitions(tokens[k].v.id) = {}

\* a compiled stream whose jump precedes the definition of its label
C12_Witness ==
    /\ compile_ret.err = "None"
    /\ \E k \in Jumps : \E d \in Definitions(tokens[k].v.id) : k < d

\* C13: a successfully compiled Program (by compile or by from_iter) has as
\* many instructions as the stream has tokens other than Header, Comment,
\* CommentDefinition and Whitespace; the i-th instruction translates the i-th
\* such token: same name and register, NoOp for a LabelDefinition
C13_OneInstructionPerToken ==
    /\ compile_ret.err = "None" => OneToOne(compile_ret.program)
    /\ from_iter_ret.err = "None" => OneToOne(from_iter_ret.program)

\* both compilers succeeded on a stream with junk between kept tokens
C13_Witness ==
    /\ compile_ret.err = "None"
    /\ from_iter_ret.err = "None"
    /\ Len(tokens) = 3
    /\ tokens[1].v.tok = "Header"
    /\ tokens[2].v.tok \in RegisterOps
    /\ Len(compile_ret.program) = 1

\* C14 as stated: every jump's target is the index after the position of a
\* LabelDefinition of its label in the filtered stream
C14_Original ==
    compile_ret.err = "None" =>
        \A k \in Jumps : \E d \in Definitions(tokens[k].v.id) :
            Compiled_at(k).i = FilteredIndex(d) + 1

\* C14: when every jump's label is defined, every jump's target is an index of
\* the Program, the position in the filtered stream of a LabelDefinition of
\* its label, and the instruction there is the NoOp made of that definition
C14_JumpTargets ==
    compile_ret.err = "None" =>
        \A k \in Jumps :
            /\ Compiled_at(k).i < Len(compile_ret.program)
            /\ compile_ret.program[Compiled_at(k).i + 1] = NoOp
            /\ \E d \in Definitions(tokens[k].v.id) : Compiled_at(k).i = FilteredIndex(d)

\* a compiled jump to a label that is the last token of the filtered stream
C14_Witness ==
    /\ compile_ret.err = "None"
    /\ \E k \in Jumps : \E d \in Definitions(tokens[k].v.id) :
          /\ FilteredIndex(d) = Len(compile_ret.program) - 1
          /\ FilteredIndex(d) > 0

\* C15: when a label is defined several times, compile reports no error for
\* it (it succeeds when every jump's label is defined) and every jump to it,
\* before, between or after the definitions, has the index of the last one
C15_LastDefinitionWins ==
    (compile_ret # NotRun /\ NoLexFailure
        /\ \E k \in Meaningful : Cardinality(Definitions(tokens[k].v.id)) > 1) =>
        /\ (\A k \in Jumps : Definitions(tokens[k].v.id) # {}) => compile_ret.err = "None"
        /\ compile_ret.err = "None" =>
              \A k \in Jumps : \E d \in Definitions(tokens[k].v.id) :
                  /\ \A d2 \in Definitions(tokens[k].v.id) : d2 <= d
                  /\ Compiled_at(k).i = FilteredIndex(d)

\* a compiled jump between two definitions of its label
C15_Witness ==
    /\ compile_ret.err = "None"
    /\ \E k \in Jumps : \E d1, d2 \in Definitions(tokens[k].v.id) :
          /\ d1 < k
          /\ k < d2
          /\ Compiled_at(k).i = FilteredIndex(d2)

\* the stream holds no Jump, JumpIfZero or JumpIfNegative token
JumpFree == \A k \in 1..Len(tokens) : tokens[k].v.tok \notin JumpTokens

LastNamed == Named(last.pre.registers, last.instr.r)

\* the last step was instruction op and its operand named a register
Did(op) == Stepped1 /\ last.instr.op = op /\ LastNamed >= 0

\* the last step did its work: Ok, or EndOfProgram on the last instruction
Succeeded == last.res \in {"Ok", "EndOfProgram"}

\* both operands of the last step are present and of these kinds
Kinds(a, v) == HasOperands /\ LastAcc.kind = a /\ LastReg.kind = v

\* the parts of C22 other than Letter minus Letter
SubOutcomes ==
    Did("Sub") =>
        /\ last.pre.accumulator = None => last.res = "SubFromNil"
        /\ (last.pre.accumulator # None /\ LastNamed \notin DOMAIN last.pre.registers) =>
              last.res = "SubWithNil"
        /\ (Kinds("Number", "Letter") \/ Kinds("Letter", "Number")) =>
              last.res = "SubCrossTypes"
        /\ (Kinds("Number", "Number") /\ LastAcc.v - LastReg.v \in -999..999) =>
              Succeeded /\ accumulator = Some(Number(LastAcc.v - LastReg.v))

C23_Add ==
    Did("Add") =>
        /\ registers = last.pre.registers
        /\ last.pre.accumulator = None => last.res = "AddToNil"
        /\ (last.pre.accumulator # None /\ LastNamed \notin DOMAIN last.pre.registers) =>
              last.res = "AddWithNil"
        /\ (HasOperands /\ "Letter" \in {LastAcc.kind, LastReg.kind}) =>
              last.res = "AddWithLetter"
        /\ (Kinds("Number", "Number") /\ LastAcc.v + LastReg.v \in -999..999) =>
              Succeeded /\ accumulator = Some(Number(LastAcc.v + LastReg.v))

\* Add on an empty accumulator and an unset register
C23_Witness ==
    /\ Did("Add")
    /\ last.pre.accumulator = None
    /\ LastNamed \notin DOMAIN last.pre.registers
    /\ last.res = "AddToNil"

\* C24: a successful BumpUp / BumpDown sets the named register to its old
\* Number plus / minus 1 and the accumulator to the same tile, whatever the
\* accumulator held; it fails with BumpNil on an unset register and with
\* BumpLetter on a Letter, whatever the accumulator holds
BumpOutcomes(op, by) ==
    Did(op) =>
        /\ LastNamed \notin DOMAIN last.pre.registers => last.res = "BumpNil"
        /\ (LastNamed \in DOMAIN last.pre.registers /\ LastReg.kind = "Letter") =>
              last.res = "BumpLetter"
        /\ Succeeded =>
              /\ LastNamed \in DOMAIN last.pre.registers
              /\ LastReg.kind = "Number"
              /\ registers =
                    Insert(last.pre.registers, LastNamed, Number(LastReg.v + by))
              /\ accumulator = Some(Number(LastReg.v + by))
        /\ (LastNamed \in DOMAIN last.pre.registers /\ LastReg.kind = "Number"
               /\ LastReg.v + by \in -999..999) => Succeeded

C24_Bump == BumpOutcomes("BumpUp", 1) /\ BumpOutcomes("BumpDown", -1)

\* BumpDown through an indirect operand succeeded on an empty accumulator
C24_Witness ==
    /\ Did("BumpDown")
    /\ last.instr.r.ind
    /\ last.pre.accumulator = None
    /\ Succeeded
    /\ accumulator = Some(Number(-2))

\* the last step, a conditional jump whose test is `holds` of the Number in
\* the accumulator, failed with nil on an empty accumulator, jumped to its
\* target when the test held, and fell through to the next index otherwise
ConditionalJump(nil, holds) ==
    /\ last.pre.accumulator = None => (last.res = nil /\ pc = last.pre.pc)
    /\ (last.pre.accumulator # None /\ LastAcc.kind = "Number" /\ holds) =>
          (last.res = "Ok" /\ pc = last.instr.i)
    /\ (last.pre.accumulator # None /\ ~(LastAcc.kind = "Number" /\ holds)) =>
          (Succeeded /\ pc = last.pre.pc + 1)

\* C25: a jump changes nothing but pc: Jump(i) sets pc to i; JumpIfZero(i) /
\* JumpIfNegative(i) fail with JumpZeroNil / JumpNegativeNil on an empty
\* accumulator, set pc to i on a Number that is zero / negative, and fall
\* through to pc + 1 on any other Number and on any Letter; accumulator,
\* registers, input and output are unchanged in every case
C25_Jumps ==
    (Stepped1 /\ last.instr.op \in JumpOps) =>
        /\ accumulator = last.pre.accumulator
        /\ registers = last.pre.registers
        /\ input = last.pre.input
        /\ output = last.pre.output
        /\ last.instr.op = "Jump" => (last.res = "Ok" /\ pc = last.instr.i)
        /\ last.instr.op = "JumpIfZero" => ConditionalJump("JumpZeroNil", LastAcc.v = 0)
        /\ last.instr.op = "JumpIfNegative" =>
              ConditionalJump("JumpNegativeNil", LastAcc.v < 0)

\* JumpIfNegative fell through on zero, from index 2 to the end
C25_Witness ==
    /\ Stepped1
    /\ last.instr.op = "JumpIfNegative"
    /\ last.pre.accumulator = Some(Number(0))
    /\ last.pre.pc = 2
    /\ pc = 3

\* the step that follows in the current state is a CopyFrom of register x
NextCopiesFrom(x) ==
    /\ pc < Len(program)
    /\ program[pc + 1].op = "CopyFrom"
    /\ Named(registers, program[pc + 1].r) = x

\* C26: a successful CopyTo leaves the accumulator's tile in the named
\* register and the accumulator unchanged, and a CopyFrom of the same register
\* that follows at once succeeds and leaves that tile in the accumulator;
\* CopyFrom succeeds with the register's tile whenever the register has an
\* entry, also Number(0), and fails with CopyFromNil exactly when it has none
C26_CopyRoundTrip ==
    /\ (Did("CopyTo") /\ Succeeded) =>
          /\ last.pre.accumulator # None
          /\ registers = Insert(last.pre.registers, LastNamed, LastAcc)
          /\ accumulator = last.pre.accumulator
    /\ (Did("CopyTo") /\ last.res = "Ok" /\ NextCopiesFrom(LastNamed)) =>
          /\ step(self).res \in {"Ok", "EndOfProgram"}
          /\ step(self).m.accumulator = last.pre.accumulator
          /\ step(self).m.registers = registers
    /\ Did("CopyFrom") =>
          /\ last.res = "CopyFromNil" <=> LastNamed \notin DOMAIN last.pre.registers
          /\ LastNamed \in DOMAIN last.pre.registers =>
                Succeeded /\ accumulator = Some(LastReg)

\* a CopyFrom right after a CopyTo of the same register brought back Number(0)
C26_Witness ==
    /\ Did("CopyFrom")
    /\ Succeeded
    /\ last.pre.pc = 2
    /\ program[2].op = "CopyTo"
    /\ Named(last.pre.registers, program[2].r) = LastNamed
    /\ supplied = <<Number(0)>>
    /\ accumulator = Some(Number(0))

\* the program is made of NoOp and Jump only and ends with a Jump, so that
\* it jumps for ever within bounds and never executes Inbox
JumpsForever ==
    /\ Len(program) > 0
    /\ \A k \in 1..Len(program) : program[k].op \in {"NoOp", "Jump"}
    /\ program[Len(program)].op = "Jump"

\* C27: run() need not terminate: in every reachable state of a program that
\* jumps for ever within bounds (as [NoOp, Jump(0)]) the next step returns Ok,
\* and run() has not returned
C27_NeverReturns ==
    JumpsForever =>
        /\ pc < Len(program)
        /\ step(self).res = "Ok"
        /\ mode \in {"stepping", "running"}
        /\ run_ret = "None"

\* run() is back at the label of [NoOp, Jump(0)] after the Jump
C27_Witness ==
    /\ program = <<NoOp, Jump(0)>>
    /\ mode = "running"
    /\ Stepped1
    /\ last.instr = Jump(0)
    /\ last.pre.pc = 1
    /\ pc = 0

\* C28: run() of the copy loop [NoOp, Inbox, Outbox, Jump(0)] with no
\* registers and any finite input eventually returns Ok, and from then on the
\* output is the input that was supplied, tile for tile and in the same order
C28_CopyLoop ==
    <>[](/\ program = <<NoOp, Inbox, Outbox, Jump(0)>>
         /\ mode = "returned"
         /\ run_ret = "Ok"
         /\ output = supplied)

\* run() of the copy loop returned after copying 1, 2, 3
C28_Witness ==
    /\ program = <<NoOp, Inbox, Outbox, Jump(0)>>
    /\ mode = "returned"
    /\ supplied = <<Number(1), Number(2), Number(3)>>
    /\ output = supplied
    /\ last.instr = Inbox
    /\ last.res = "EndOfProgram"

\* a step that starts on a new machine or after a step that returned Ok, as
\* every step of run() does, fetches inside the Program
FetchInside ==
    (mode \in {"stepping", "running"} /\ last.res \in {"None", "Ok"}) =>
        pc < Len(program)

\* every jump of the Program has its target inside the Program
JumpTargetsInside ==
    \A k \in 1..Len(program) :
        program[k].op \in JumpOps => program[k].i < Len(program)

\* C29: for every compiled Program, the empty one included, every input and
\* every initial registers, pc is less than the Program length at the start of
\* every step that run() executes, and every jump target is less than the
\* Program length
C29_NoFetchOutside == FetchInside /\ JumpTargetsInside

\* what holds of C29: every compiled Program that has an instruction
C29_NonEmpty == Len(program) > 0 => C29_NoFetchOutside

\* C30: run() of a Program of length n >= 1 without jumps terminates after at
\* most n steps: every step that returns Ok raises pc by exactly one and leaves
\* it below n, every other step ends run(), and run() does return
C30_StraightLine ==
    /\ [](pc <= Len(program) /\ mode # "panicked")
    /\ [][/\ last'.res = "Ok" =>
                (pc' = pc + 1 /\ pc' < Len(program) /\ mode' = "running")
          /\ last'.res # "Ok" => mode' = "returned"]_vars
    /\ <>(mode = "returned")

\* run() returned at the end of a Program of the greatest length without jumps
C30_Witness ==
    /\ Len(program) = MaxStraightLen
    /\ \A k \in 1..Len(program) : program[k].op \notin JumpOps
    /\ mode = "returned"
    /\ run_ret = "Ok"
    /\ last.res = "EndOfProgram"
    /\ last.pre.pc = Len(program) - 1
    /\ pc = Len(program)

\* C31: no step empties the accumulator or removes a register entry: an
\* accumulator that holds a tile holds a tile after every step, and every
\* register index that has an entry has one after every step
C31_NothingEmptied ==
    [][/\ accumulator # None => accumulator' # None
       /\ DOMAIN registers \subseteq DOMAIN registers']_vars

\* a CopyTo gave register 0 its first entry and the accumulator kept its tile,
\* two steps after the Inbox that filled it
C31_Witness ==
    /\ Stepped1
    /\ last.instr.op = "CopyTo"
    /\ last.res \in {"Ok", "EndOfProgram"}
    /\ last.pre.pc = 2
    /\ last.pre.registers = <<>>
    /\ DOMAIN registers = {0}
    /\ accumulator # None

\* C32: a successful Outbox leaves the accumulator holding the tile it has
\* appended to the output, so an Outbox that follows at once succeeds as well
\* and appends the same tile again
C32_OutboxKeepsHand ==
    /\ (Stepped1 /\ last.instr.op = "Outbox" /\ last.res \in {"Ok", "EndOfProgram"}) =>
          /\ last.pre.accumulator # None
          /\ accumulator = last.pre.accumulator
          /\ output = Append(last.pre.output, accumulator[1])
    /\ (Stepped1 /\ last.instr.op = "Outbox" /\ last.res = "Ok"
          /\ program[pc + 1].op = "Outbox") =>
          /\ step(self).res \in {"Ok", "EndOfProgram"}
          /\ step(self).m.output = output \o <<output[Len(output)]>>
          /\ step(self).m.accumulator = accumulator

\* the second of two Outbox steps in a row appended the tile of the first
C32_Witness ==
    /\ Stepped1
    /\ last.instr.op = "Outbox"
    /\ last.res \in {"Ok", "EndOfProgram"}
    /\ last.pre.pc = 2
    /\ program[2].op = "Outbox"
    /\ Len(output) = 2
    /\ output[1] = output[2]
    /\ accumulator = Some(output[2])

\* ------------------------------------------------------------------------
\* Properties of the lexer
\* ------------------------------------------------------------------------
\* next() was called
Called == lex_ret # "Start"

\* the token the last call returned
LastToken == lexed[Len(lexed)]

\* the source reads lit at offset pt
StartsWith(pt, lit) ==
    /\ pt + Len(lit) <= Len(source)
    /\ \A k \in 1..Len(lit) : source[pt + k] = lit[k]

\* the length of the longest run of characters of set chars at offset pt
RunLength(pt, chars) ==
    CHOOSE n \in 0..(Len(source) - pt) :
        /\ \A k \in 1..n : source[pt + k] \in chars
        /\ pt + n < Len(source) => source[pt + n + 1] \notin chars

\* the source at offset pt
Slice(pt, n) == [k \in 1..n |-> source[pt + k]]

Digits == {DigitChars[n] : n \in 1..10}

\* the last call found, at its offset, lit, whitespace and a label: it
\* returned the token tok of the label and consumed exactly that text
LexesJump(lit, tok) ==
    LET w == RunLength(lex_from + Len(lit), WhitespaceChars)
        l == RunLength(lex_from + Len(lit) + w, LowerChars)
    IN (Called /\ StartsWith(lex_from, lit) /\ w >= 1 /\ l >= 1) =>
        /\ lex_ret = "Ok"
        /\ LastToken = Token(tok, NoReg, Slice(lex_from + Len(lit) + w, l), <<>>)
        /\ offset = lex_from + Len(lit) + w + l

\* the last call found, at its offset, lit, whitespace and a register operand
\* N or [N] with N in 0..255: it returned the token tok of that register and
\* consumed exactly that text
LexesRegister(lit, tok) ==
    LET w == RunLength(lex_from + Len(lit), WhitespaceChars)
        at == lex_from + Len(lit) + w
        d == RunLength(at, Digits)
        b == RunLength(at + 1, Digits)
    IN /\ (Called /\ StartsWith(lex_from, lit) /\ w >= 1 /\ d >= 1
              /\ Value(Slice(at, d)) <= U8_MAX) =>
            /\ lex_ret = "Ok"
            /\ LastToken = Token(tok, Direct(Value(Slice(at, d))), <<>>, <<>>)
            /\ offset = at + d
       /\ (Called /\ StartsWith(lex_from, lit) /\ w >= 1 /\ StartsWith(at, <<"[">>)
              /\ b >= 1 /\ StartsWith(at + 1 + b, <<"]">>)
              /\ Value(Slice(at + 1, b)) <= U8_MAX) =>
            /\ lex_ret = "Ok"
            /\ LastToken = Token(tok, Indirect(Value(Slice(at + 1, b))), <<>>, <<>>)
            /\ offset = at + b + 2

\* C17: the token of a lexing step is that of the first production, in the
\* order header .. whitespace, that matches at the step's offset, all tried
\* from that offset; a failed step consumes nothing; JUMP, JUMPZ and JUMPN
\* followed by whitespace and a label lex as Jump, JumpIfZero, JumpIfNegative
C17_ProductionOrder ==
    /\ lex_ret = "Ok" =>
          \E k \in 1..Productions :
              /\ production(k, source, lex_from) = Success(offset, LastToken)
              /\ \A j \in 1..(k - 1) : production(j, source, lex_from).status = "Failure"
    /\ lex_ret = "Err" =>
          /\ offset = lex_from
          /\ \A k \in 1..Productions : production(k, source, lex_from).status = "Failure"
    /\ LexesJump(Literal.JUMP, "Jump")
    /\ LexesJump(Literal.JUMPZ, "JumpIfZero")
    /\ LexesJump(Literal.JUMPN, "JumpIfNegative")

\* a step lexed JUMPZ, whitespace, label as JumpIfZero of the label
C17_Witness ==
    /\ lex_ret = "Ok"
    /\ StartsWith(lex_from, Literal.JUMPZ)
    /\ LastToken = Token("JumpIfZero", NoReg, <<"a">>, <<>>)

C19_ForwardOnly ==
    /\ lex_ret = "Ok" => offset > lex_from
    /\ lex_ret # "Ok" => offset = lex_from
    /\ Len(lexed) <= offset
    /\ offset <= Len(source)
    /\ lex_ret \in {"Start", "Ok", "None", "Err"}

\* C20: when the stream holds a lex failure, compile returns ParserError with
\* the first failure of the stream and no Program, whatever the tokens are
C20_ParserErrorFirst ==
    (compile_ret # NotRun /\ ~NoLexFailure) =>
        \E k \in 1..Len(tokens) :
            /\ tokens[k].err # "None"
            /\ \A j \in 1..(k - 1) : tokens[j].err = "None"
            /\ compile_ret = Compilation("ParserError", tokens[k].err, <<>>)

\* compile ran on a jump to an undefined label followed by two failures
C20_Witness ==
    /\ compile_ret.err = "ParserError"
    /\ Len(tokens) = 3
    /\ tokens[1].v.tok \in JumpTokens
    /\ tokens[2].err # "None"
    /\ tokens[3].err \notin {"None", tokens[2].err}

\* C16
\* ------------------------------------------------------------------------
\* C16: for the program [Inbox, Outbox] and an input of at least one tile,
\* run() returns success, the output is the first input tile alone and the
\* input left is the supplied input without its first tile.
C16_InboxOutbox ==
    (program = <<Inbox, Outbox>> /\ Len(supplied) >= 1 /\ mode = "returned") =>
        /\ run_ret = "Ok"
        /\ output = <<supplied[1]>>
        /\ Remaining = Tail(supplied)

\* run() has returned on [Inbox, Outbox] with two different tiles supplied
C16_Witness ==
    /\ program = <<Inbox, Outbox>>
    /\ Len(supplied) = 2
    /\ supplied[1] # supplied[2]
    /\ mode = "returned"
    /\ output = <<supplied[1]>>


\* C33: a lex failure does not advance the Parser: after next() returned a
\* failure the position is the one the call started from, no token was added,
\* and the next call, which every later one repeats, returns the failure again
\* from that position, never None and never a token
C33_FailureRepeats ==
    lex_ret = "Err" =>
        /\ offset = lex_from
        /\ offset < Len(source)
        /\ next(source, offset) = [ret |-> "Err", point |-> offset, tok |-> NoToken]

\* next() failed after it had returned a token, with text left to lex
C33_Witness ==
    /\ lex_ret = "Err"
    /\ Len(lexed) >= 1
    /\ offset = lex_from
    /\ offset > 0
    /\ offset < Len(source)


\* the mnemonics that take a register operand
RegisterLiterals ==
    {Literal.COPYFROM, Literal.COPYTO, Literal.BUMPUP, Literal.BUMPDN,
     Literal.ADD, Literal.SUB}

\* the last call found, at its offset, lit, whitespace and then a register
\* operand whose run of digits, after "[" if there is one, is as long as it
\* can be: a token it returned holds the number of the whole run, a run over
\* 255 aborted the process, and an empty run had the outcome `empty` when the
\* text ends there and was a lex failure otherwise
RegisterOperand(lit, empty) ==
    LET w == RunLength(lex_from + Len(lit), WhitespaceChars)
        open == lex_from + Len(lit) + w
        at == IF StartsWith(open, <<"[">>) THEN open + 1 ELSE open
        d == RunLength(at, Digits)
    IN (Called /\ StartsWith(lex_from, lit) /\ w >= 1) =>
        /\ lex_ret = "Ok" =>
              /\ d >= 1
              /\ LastToken.r.n = Value(Slice(at, d))
              /\ offset >= at + d
        /\ (d >= 1 /\ Value(Slice(at, d)) > U8_MAX) => lex_ret = "Panic"
        /\ (d = 0 /\ at < Len(source)) => lex_ret = "Err"
        /\ (d = 0 /\ at = Len(source)) => lex_ret = empty

\* every Register of a token the lexer returned has an index in 0..255
RegistersAreBytes ==
    \A k \in 1..Len(lexed) :
        lexed[k].tok \in RegisterOps => lexed[k].r.n \in 0..U8_MAX

\* C34: every Register token has an index in 0..255: a register operand takes
\* the longest run of digits, an empty run is a lex failure, and a numeral
\* over 255 aborts the process instead of yielding a token or a lex failure
C34_RegisterIndex ==
    /\ RegistersAreBytes
    /\ \A lit \in RegisterLiterals : RegisterOperand(lit, "Err")

\* what holds of C34: an empty run where the text ends aborts the process
C34_EmptyAtEndAborts ==
    /\ RegistersAreBytes
    /\ \A lit \in RegisterLiterals : RegisterOperand(lit, "Panic")

====
